---- MODULE Spec2Model ----
(***************************************************************************)
(* A state-machine model of sudoku_solver.solver.SudokuSolver: the         *)
(* constructor, solve(), the recursive backtrack_with_conflicts() with its *)
(* snapshot/restore, forward checking and the AC-3 worklist.               *)
(*                                                                         *)
(* The recursion is unfolded into an explicit call stack: one frame per    *)
(* active call of backtrack_with_conflicts, holding that call's locals.    *)
(* AC-3 runs one popped arc per step, its worklist being part of the       *)
(* state.                                                                  *)
(***************************************************************************)
EXTENDS Integers, Sequences, FiniteSets, TLC

VARIABLES
    board,              \* self.board: the 9x9 grid, mutated in place
    domains,            \* self.domains: dict position -> set of values
    conflict_sets,      \* self.conflict_sets: dict position -> set of positions
    assignment_order,   \* self.assignment_order: list of positions
    use_mrv,            \* the four toggles of the constructor
    use_forward_checking,
    use_ac3,
    use_lcv,
    pc,                 \* position of the running call
    stack,              \* frames of the active backtrack_with_conflicts calls
    queue,              \* the deque of ac3_with_conflicts
    ret,                \* value returned by the last finished backtrack call
    ac3_conflicts,      \* value returned by the last finished ac3_with_conflicts call
    result,             \* value returned by solve()
    given,              \* history: the grid as handed to the constructor
    before              \* history: the solver state just before each live assignment

vars == <<board, domains, conflict_sets, assignment_order, use_mrv,
          use_forward_checking, use_ac3, use_lcv, pc, stack, queue, ret,
          ac3_conflicts, result, given, before>>

-----------------------------------------------------------------------------
(* Bounds and program constants *)

\* self.size
Size == 9

\* self.empty
Empty == 0

\* largest number of empty cells of an input grid
MaxEmpty == 4

Idx == 0 .. (Size - 1)
Pos == Idx \X Idx

\* set(range(1, 10))
Vals == 1 .. 9

\* "no variable": the None returned by get_next_variable
None == <<-1, -1>>

-----------------------------------------------------------------------------
(* Input grids: a solved grid, optionally with some clues overwritten       *)
(* (which gives grids with duplicate clues and unsolvable grids), and with  *)
(* up to MaxEmpty cells of HolePool emptied.                                *)

Solved ==
    << <<5, 3, 4, 6, 7, 8, 9, 1, 2>>,
       <<6, 7, 2, 1, 9, 5, 3, 4, 8>>,
       <<1, 9, 8, 3, 4, 2, 5, 6, 7>>,
       <<8, 5, 9, 7, 6, 1, 4, 2, 3>>,
       <<4, 2, 6, 8, 5, 3, 7, 9, 1>>,
       <<7, 1, 3, 9, 2, 4, 8, 5, 6>>,
       <<9, 6, 1, 5, 3, 7, 2, 8, 4>>,
       <<2, 8, 7, 4, 1, 9, 6, 3, 5>>,
       <<3, 4, 5, 2, 8, 6, 1, 7, 9>> >>

Overwritten ==
    (<<7, 3>> :> 1) @@ (<<6, 4>> :> 4) @@ (<<5, 4>> :> 9) @@
    (<<4, 5>> :> 4) @@ (<<8, 1>> :> 3)

HolePool == { <<2, 3>>, <<2, 4>>, <<2, 5>>, <<5, 4>>, <<5, 5>>, <<8, 0>> }

Grid(patched, holes) ==
    [p \in Pos |->
        IF p \in holes THEN Empty
        ELSE IF patched /\ p \in DOMAIN Overwritten THEN Overwritten[p]
        ELSE Solved[p[1] + 1][p[2] + 1]]

InputGrids ==
    { Grid(t, h) : t \in BOOLEAN,
                   h \in { s \in SUBSET HolePool : Cardinality(s) <= MaxEmpty } }

-----------------------------------------------------------------------------
(* Topology *)

SameRow(p, q) == p[1] = q[1]
SameCol(p, q) == p[2] = q[2]
SameBox(p, q) == (p[1] \div 3 = q[1] \div 3) /\ (p[2] \div 3 = q[2] \div 3)

\* the condition "i == row or j == col or (i//3 == row//3 and j//3 == col//3)"
Related(p, q) == SameRow(p, q) \/ SameCol(p, q) \/ SameBox(p, q)

\* position of a cell in the row-major scan "for i ...: for j ...:"
RowMajor(p) == p[1] * Size + p[2]

\* the positions of a set as the row-major double loop meets them
InScanOrder(S) ==
    [k \in 1 .. Cardinality(S) |->
        CHOOSE p \in S :
            Cardinality({ q \in S : RowMajor(q) < RowMajor(p) }) = k - 1]

Range(s) == { s[i] : i \in DOMAIN s }

\* all orders in which the elements of a set can be met
Orders(S) ==
    { f \in [1 .. Cardinality(S) -> S] : \A i, j \in DOMAIN f : i # j => f[i] # f[j] }

-----------------------------------------------------------------------------
(* utils.py *)

is_valid_board(b) ==
    \A p \in Pos : b[p] \in Int /\ ~(b[p] < 0 \/ b[p] > 9)

RowCells(i) == { p \in Pos : p[1] = i }
ColCells(j) == { p \in Pos : p[2] = j }
BoxCells(bi, bj) == { p \in Pos : p[1] \div 3 = bi /\ p[2] \div 3 = bj }

Units ==
    { RowCells(i) : i \in Idx } \cup { ColCells(j) : j \in Idx }
    \cup { BoxCells(bi, bj) : bi \in 0 .. 2, bj \in 0 .. 2 }

validate_solution(b) ==
    \A u \in Units : \A x \in 1 .. 9 : \E p \in u : b[p] = x

-----------------------------------------------------------------------------
(* Board/domain model *)

\* the values update_domain discards from the domain of pos
Seen(b, pos) ==
    { b[q] : q \in { q \in Pos : Related(pos, q) /\ b[q] # Empty } }

update_domain(b, pos, dom) == dom \ Seen(b, pos)

initialize_domains(b) ==
    [p \in { q \in Pos : b[q] = Empty } |-> update_domain(b, p, Vals)]

\* is_safe without its column loop
is_safe_no_column(b, pos, value) ==
    /\ \A q \in RowCells(pos[1]) : b[q] # value
    /\ \A q \in BoxCells(pos[1] \div 3, pos[2] \div 3) : b[q] # value

is_safe(b, pos, value) ==
    /\ \A q \in RowCells(pos[1]) : b[q] # value
    /\ \A q \in ColCells(pos[2]) : b[q] # value
    /\ \A q \in BoxCells(pos[1] \div 3, pos[2] \div 3) : b[q] # value

-----------------------------------------------------------------------------
(* Heuristic selectors *)

\* get_first_empty with the test on the cell reversed: the first filled cell
get_first_empty_takes_filled(b) ==
    LET filled == { p \in Pos : b[p] # Empty }
    IN  IF filled = {} THEN None
        ELSE CHOOSE p \in filled : \A q \in filled : RowMajor(p) <= RowMajor(q)

get_first_empty(b) ==
    LET empties == { p \in Pos : b[p] = Empty }
    IN  IF empties = {} THEN None ELSE Head(InScanOrder(empties))

\* self.domains is a dict: it is iterated in insertion order, which is the
\* row-major order of initialize_domains (keys are only ever deleted, or the
\* whole dict is replaced by an earlier deep copy of itself).  The strict "<"
\* keeps the first of the smallest domains.
get_mrv_variable(doms) ==
    IF DOMAIN doms = {} THEN None
    ELSE LET least == CHOOSE n \in 0 .. 9 :
                         /\ \E p \in DOMAIN doms : Cardinality(doms[p]) = n
                         /\ \A p \in DOMAIN doms : Cardinality(doms[p]) >= n
         IN  Head(InScanOrder({ p \in DOMAIN doms : Cardinality(doms[p]) = least }))

get_next_variable(b, doms, mrv) ==
    IF ~mrv THEN get_first_empty(b) ELSE get_mrv_variable(doms)

count_constraints(b, doms, var, value) ==
    Cardinality({ p \in Pos :
                    /\ p # var
                    /\ b[p] = Empty
                    /\ Related(p, var)
                    /\ p \in DOMAIN doms
                    /\ value \in doms[p] })

\* The lists get_ordered_values can return.  Without LCV the list is sorted
\* ascending.  With LCV, sorted() is stable over the iteration order of a
\* set, which for a deep-copied set is not the ascending order: values with
\* equal counts may come in any order.
get_ordered_values(b, doms, var, lcv) ==
    IF ~lcv
    THEN { s \in Orders(doms[var]) : \A i, j \in DOMAIN s : i < j => s[i] < s[j] }
    ELSE { s \in Orders(doms[var]) :
             \A i, j \in DOMAIN s :
                 i < j => count_constraints(b, doms, var, s[i])
                            <= count_constraints(b, doms, var, s[j]) }

-----------------------------------------------------------------------------
(* Constraint propagator *)

\* The double loop of forward_check_with_conflicts over the cells it meets,
\* in order: each cell that is a key of the domain map loses value, and the
\* loop returns {var} at the first such cell left with an empty domain.
\* failed = FALSE stands for the returned None.
ForwardScan(doms, cells, var, value) ==
    LET wiped == { k \in DOMAIN cells :
                     cells[k] \in DOMAIN doms /\ doms[cells[k]] \ {value} = {} }
        stop == IF wiped = {} THEN Len(cells)
                ELSE CHOOSE k \in wiped : \A m \in wiped : k <= m
        met == { cells[k] : k \in 1 .. stop }
    IN  [domains |-> [p \in DOMAIN doms |->
                        IF p \in met THEN doms[p] \ {value} ELSE doms[p]],
         failed |-> wiped # {},
         conflicts |-> IF wiped # {} THEN {var} ELSE {}]

\* forward checking that prunes every empty cell, related to var or not
forward_check_every_cell(b, doms, var, value) ==
    ForwardScan(doms, InScanOrder({ p \in Pos : b[p] = Empty }), var, value)

\* forward checking that prunes the row of var only
forward_check_row_only(b, doms, var, value) ==
    ForwardScan(doms,
                InScanOrder({ p \in Pos : b[p] = Empty /\ SameRow(p, var) }),
                var, value)

forward_check_with_conflicts(b, doms, var, value) ==
    ForwardScan(doms,
                InScanOrder({ p \in Pos : b[p] = Empty /\ Related(p, var) }),
                var, value)

\* the arcs get_all_edges appends for one cell: row, column, then box arcs
\* (a box peer in the same row or column is appended twice)
EdgesFrom(doms, p) ==
    LET arcs(S) == [k \in DOMAIN InScanOrder(S) |-> <<p, InScanOrder(S)[k]>>]
    IN  arcs({ q \in DOMAIN doms : SameRow(p, q) /\ q # p })
        \o arcs({ q \in DOMAIN doms : SameCol(p, q) /\ q # p })
        \o arcs({ q \in DOMAIN doms : SameBox(p, q) /\ q # p })

RECURSIVE EdgesOver(_, _, _)
\* the arcs appended for the first n cells of the scan
EdgesOver(doms, cells, n) ==
    IF n = 0 THEN << >>
    ELSE EdgesOver(doms, cells, n - 1) \o EdgesFrom(doms, cells[n])

get_all_edges(doms) ==
    EdgesOver(doms, InScanOrder(DOMAIN doms), Cardinality(DOMAIN doms))

\* get_neighbors without its "row neighbors" loop
get_neighbors_no_row(doms, var) ==
    { q \in DOMAIN doms : q # var /\ (SameCol(var, q) \/ SameBox(var, q)) /\ ~SameRow(var, q) }

get_neighbors(doms, var) ==
    { q \in DOMAIN doms : q # var /\ Related(var, q) }

\* remove_inconsistent_values with "all" for "any": x goes when xj can take x
remove_values_shared(doms, xi, xj) ==
    { x \in doms[xi] : \A y \in doms[xj] : y # x }

\* the domain of xi after remove_inconsistent_values(xi, xj)
remove_inconsistent_values(doms, xi, xj) ==
    { x \in doms[xi] : \E y \in doms[xj] : y # x }

-----------------------------------------------------------------------------
(* Search engine *)

Top == stack[Len(stack)]
Pop(s) == SubSeq(s, 1, Len(s) - 1)

Frame(var, values) ==
    [var |-> var, values |-> values, value |-> Empty, current_conflicts |-> {},
     old_domains |-> << >>, old_conflicts |-> << >>]

\* restore_state that leaves the value on the board
restore_state_keeps_board(var, old_domains, old_conflicts) ==
    /\ board' = board
    /\ domains' = old_domains
    /\ conflict_sets' = old_conflicts
    /\ assignment_order' = Pop(assignment_order)

\* restore_state that keeps the pruned domains
restore_state_keeps_domains(var, old_domains, old_conflicts) ==
    /\ board' = [board EXCEPT ![var] = Empty]
    /\ domains' = domains
    /\ conflict_sets' = old_conflicts
    /\ assignment_order' = Pop(assignment_order)

restore_state(var, old_domains, old_conflicts) ==
    /\ board' = [board EXCEPT ![var] = Empty]
    /\ domains' = old_domains
    /\ conflict_sets' = old_conflicts
    /\ assignment_order' = Pop(assignment_order)

\* "current_conflicts.update(c - {var}); self.restore_state(...); continue"
Reject(c) ==
    /\ stack' = [stack EXCEPT ![Len(stack)].current_conflicts = @ \cup (c \ {Top.var})]
    /\ restore_state(Top.var, Top.old_domains, Top.old_conflicts)
    /\ before' = Pop(before)
    /\ pc' = "loop"

-----------------------------------------------------------------------------
Init ==
    /\ board \in { b \in InputGrids : is_valid_board(b) }
    /\ given = board
    /\ use_mrv \in BOOLEAN
    /\ use_forward_checking \in BOOLEAN
    /\ use_ac3 \in BOOLEAN
    /\ use_lcv \in BOOLEAN
    /\ domains = initialize_domains(board)
    /\ conflict_sets = << >>
    /\ assignment_order = << >>
    /\ pc = "solve"
    /\ stack = << >>
    /\ queue = << >>
    /\ ret = [success |-> FALSE, conflicts |-> {}]
    /\ ac3_conflicts = [failed |-> FALSE, conflicts |-> {}]
    /\ result = FALSE
    /\ before = << >>


Toggles == <<use_mrv, use_forward_checking, use_ac3, use_lcv>>

\* solve(), up to the call of backtrack_with_conflicts
Solve ==
    /\ UNCHANGED ac3_conflicts
    /\ pc = "solve"
    /\ IF use_ac3
       THEN queue' = get_all_edges(domains) /\ pc' = "ac3"
       ELSE queue' = queue /\ pc' = "call"
    /\ UNCHANGED <<board, domains, conflict_sets, assignment_order, Toggles,
                   stack, ret, result, given, before>>

\* one turn of the "while queue" loop of ac3_with_conflicts.  A lookup of a
\* position that is no key of self.domains raises KeyError: pc = "error".
Ac3Step ==
    /\ pc = "ac3"
    /\ queue # << >>
    /\ LET xi == Head(queue)[1]
           xj == Head(queue)[2]
       IN  IF xi \notin DOMAIN domains \/ xj \notin DOMAIN domains
           THEN /\ pc' = "error"
                /\ UNCHANGED <<board, domains, conflict_sets, assignment_order,
                               stack, queue, ac3_conflicts, result, before>>
           ELSE LET revised == remove_inconsistent_values(domains, xi, xj)
                    current == [domains EXCEPT ![xi] = revised]
                IN  IF revised = domains[xi]
                    THEN /\ queue' = Tail(queue)
                         /\ UNCHANGED <<board, domains, conflict_sets, assignment_order,
                                        stack, pc, ac3_conflicts, result, before>>
                    ELSE IF revised = {}
                    THEN /\ queue' = << >>
                         /\ ac3_conflicts' = [failed |-> TRUE, conflicts |-> {xi, xj}]
                         /\ IF stack = << >>
                            THEN /\ result' = FALSE
                                 /\ pc' = "done"
                                 /\ domains' = current
                                 /\ UNCHANGED <<board, conflict_sets,
                                                assignment_order, stack, before>>
                            ELSE /\ Reject({xi, xj})
                                 /\ UNCHANGED result
                    ELSE /\ \E order \in Orders(get_neighbors(current, xi) \ {xj}) :
                              queue' = Tail(queue)
                                       \o [k \in DOMAIN order |-> <<order[k], xi>>]
                         /\ domains' = current
                         /\ UNCHANGED <<board, conflict_sets, assignment_order,
                                        stack, pc, ac3_conflicts, result, before>>
    /\ UNCHANGED <<Toggles, ret, given>>

\* the worklist is empty: ac3_with_conflicts returns None (failed = FALSE)
Ac3Return ==
    /\ pc = "ac3"
    /\ queue = << >>
    /\ ac3_conflicts' = [failed |-> FALSE, conflicts |-> {}]
    /\ pc' = "call"
    /\ UNCHANGED <<board, domains, conflict_sets, assignment_order, Toggles,
                   stack, queue, ret, result, given, before>>

\* entry of backtrack_with_conflicts: choose the variable, order its values
Call ==
    /\ UNCHANGED ac3_conflicts
    /\ pc = "call"
    /\ \E var \in { get_next_variable(board, domains, use_mrv) } :
           IF var = None
           THEN /\ ret' = [success |-> TRUE, conflicts |-> {}]
                /\ pc' = "ret"
                /\ UNCHANGED stack
           ELSE IF var \notin DOMAIN domains
           THEN /\ pc' = "error"
                /\ UNCHANGED <<stack, ret>>
           ELSE /\ \E values \in get_ordered_values(board, domains, var, use_lcv) :
                      stack' = Append(stack, Frame(var, values))
                /\ pc' = "loop"
                /\ UNCHANGED ret
    /\ UNCHANGED <<board, domains, conflict_sets, assignment_order, Toggles,
                   queue, result, given, before>>

\* the for loop has no value left: store the conflicts, return failure
Exhaust ==
    /\ UNCHANGED ac3_conflicts
    /\ pc = "loop"
    /\ Top.values = << >>
    /\ conflict_sets' = [p \in DOMAIN conflict_sets \cup {Top.var} |->
                            IF p = Top.var THEN Top.current_conflicts
                            ELSE conflict_sets[p]]
    /\ ret' = [success |-> FALSE, conflicts |-> Top.current_conflicts]
    /\ stack' = Pop(stack)
    /\ pc' = "ret"
    /\ UNCHANGED <<board, domains, assignment_order, Toggles, queue, result,
                   given, before>>

\* the next value fails is_safe: the loop moves on
Skip ==
    /\ UNCHANGED ac3_conflicts
    /\ pc = "loop"
    /\ Top.values # << >>
    /\ ~is_safe(board, Top.var, Head(Top.values))
    /\ stack' = [stack EXCEPT ![Len(stack)].values = Tail(@)]
    /\ UNCHANGED <<board, domains, conflict_sets, assignment_order, Toggles,
                   pc, queue, ret, result, given, before>>

\* the next value passes is_safe: snapshot, then assign
Assign ==
    /\ UNCHANGED ac3_conflicts
    /\ pc = "loop"
    /\ Top.values # << >>
    /\ LET var == Top.var
           value == Head(Top.values)
       IN  /\ is_safe(board, var, value)
           /\ stack' = [stack EXCEPT ![Len(stack)] =
                          [@ EXCEPT !.values = Tail(@), !.value = value,
                                    !.old_domains = domains,
                                    !.old_conflicts = conflict_sets]]
           /\ board' = [board EXCEPT ![var] = value]
           /\ assignment_order' = Append(assignment_order, var)
           /\ domains' = [p \in DOMAIN domains \ {var} |-> domains[p]]
    /\ before' = Append(before, [board |-> board, domains |-> domains,
                                 conflict_sets |-> conflict_sets,
                                 assignment_order |-> assignment_order])
    /\ pc' = "assigned"
    /\ UNCHANGED <<conflict_sets, Toggles, queue, ret, result, given>>

\* forward checking after the assignment, then the seeding of AC-3
Propagate ==
    /\ UNCHANGED ac3_conflicts
    /\ pc = "assigned"
    /\ \E fc \in { IF use_forward_checking
                   THEN forward_check_with_conflicts(board, domains, Top.var, Top.value)
                   ELSE [domains |-> domains, failed |-> FALSE, conflicts |-> {}] } :
           IF fc.failed
           THEN /\ Reject(fc.conflicts)
                /\ UNCHANGED queue
           ELSE /\ domains' = fc.domains
                /\ IF use_ac3
                   THEN queue' = get_all_edges(fc.domains) /\ pc' = "ac3"
                   ELSE queue' = queue /\ pc' = "call"
                /\ UNCHANGED <<board, conflict_sets, assignment_order, stack, before>>
    /\ UNCHANGED <<Toggles, ret, result, given>>

\* the recursive call returned success: return (True, set()) in turn
ReturnSuccess ==
    /\ UNCHANGED ac3_conflicts
    /\ pc = "ret"
    /\ stack # << >>
    /\ ret.success
    /\ stack' = Pop(stack)
    /\ ret' = [success |-> TRUE, conflicts |-> {}]
    /\ UNCHANGED <<board, domains, conflict_sets, assignment_order, Toggles,
                   pc, queue, result, given, before>>

\* the recursive call returned failure: merge its conflicts, restore, go on
ReturnFailure ==
    /\ UNCHANGED ac3_conflicts
    /\ pc = "ret"
    /\ stack # << >>
    /\ ~ret.success
    /\ Reject(ret.conflicts)
    /\ UNCHANGED <<Toggles, queue, ret, result, given>>

\* the outermost call returned: solve() returns its success flag
Finish ==
    /\ UNCHANGED ac3_conflicts
    /\ pc = "ret"
    /\ stack = << >>
    /\ result' = ret.success
    /\ pc' = "done"
    /\ UNCHANGED <<board, domains, conflict_sets, assignment_order, Toggles,
                   stack, queue, ret, given, before>>

Next ==
    \/ Solve
    \/ Ac3Step
    \/ Ac3Return
    \/ Call
    \/ Exhaust
    \/ Skip
    \/ Assign
    \/ Propagate
    \/ ReturnSuccess
    \/ ReturnFailure
    \/ Finish

Spec == Init /\ [][Next]_vars

\* solve() is one sequential call: a step that can be taken is taken
LiveSpec == Spec /\ WF_vars(Next)
-----------------------------------------------------------------------------
(* What the claims are stated with.  These definitions say what a Sudoku   *)
(* solution is on their own terms: they use none of the solver's           *)
(* operators.                                                              *)

Empties(b) == { p \in Pos : b[p] = Empty }

\* the values on board b in the row, column and box of p, p itself left out
Near(b, p) ==
    { b[q] : q \in { r \in Pos : r # p /\ Related(p, r) /\ b[r] # Empty } }

\* no two filled cells of a row, column or box hold the same value
NoDuplicates(b) ==
    \A u \in Units : \A p, q \in u : (p # q /\ b[p] # Empty) => b[p] # b[q]

\* every row, column and box holds each of 1..9 exactly once
Solution(b) ==
    \A u \in Units : \A x \in 1 .. 9 : Cardinality({ p \in u : b[p] = x }) = 1

RECURSIVE Fillings(_)
\* the full boards got from b by giving every empty cell a value that none
\* of its row, column and box holds
Fillings(b) ==
    IF Empties(b) = {} THEN {b}
    ELSE LET p == CHOOSE q \in Empties(b) : TRUE
         IN  UNION { Fillings([b EXCEPT ![p] = v]) : v \in (1 .. 9) \ Near(b, p) }

\* the solutions of the puzzle b: the ways to fill it that keep the clues
Completions(b) == { f \in Fillings(b) : Solution(f) }

Least(S) == CHOOSE x \in S : \A y \in S : x <= y

Done == pc = "done"

-----------------------------------------------------------------------------
(* C1: whenever solve() returns True, the board passes validate_solution   *)
(* and every clue of the constructor's grid still holds its value.         *)
(* Stated for every accepted grid, this fails: a grid with a duplicate     *)
(* clue is accepted by is_valid_board and solve() returns True on it.      *)
C1_SuccessIsSolution ==
    (Done /\ result) =>
        /\ validate_solution(board)
        /\ \A p \in Pos : given[p] # Empty => board[p] = given[p]

-----------------------------------------------------------------------------
(* C2: whenever solve() returns False, the board equals, cell for cell,    *)
(* the grid given to the constructor.                                      *)
C2_FailureLeavesGrid ==
    (Done /\ ~result) => board = given

\* a failed solve whose search assigned values: the root variable was
\* exhausted after a propagation conflict under one of its values
C2_Witness ==
    /\ Done /\ ~result
    /\ ret.conflicts # {}
    /\ DOMAIN conflict_sets # {}

-----------------------------------------------------------------------------
(* C3: solve() returns False only when the grid has no solution: if the    *)
(* empty cells can be filled so that every row, column and box holds 1..9  *)
(* once, solve() returns True, whatever the toggles.                       *)
C3_SolvableIsSolved ==
    (Done /\ Completions(given) # {}) => result

\* a solvable grid solved with forward checking on, after the first value
\* tried for the first variable had been rejected
C3_Witness ==
    /\ Done /\ result
    /\ Completions(given) # {}
    /\ use_forward_checking /\ ~use_lcv /\ ~use_ac3
    /\ assignment_order # << >>
    /\ LET first == assignment_order[1]
       IN  board[first] # Least(initialize_domains(given)[first])

-----------------------------------------------------------------------------
(* C4: on a grid with one solution or none, the value solve() returns and, *)
(* for one solution, the final board are the same under all 16 settings of *)
(* the toggles: the returned value is whether the empty cells can be       *)
(* filled without repeating a value of their row, column or box, and the   *)
(* board is the one solution; neither depends on the toggles.              *)
C4_TogglesAgree ==
    (Done /\ Cardinality(Completions(given)) <= 1) =>
        /\ result = (Fillings(given) # {})
        /\ Completions(given) # {} => board \in Completions(given)

\* a one-solution grid solved with MRV, LCV and forward checking on, MRV
\* having started from another cell than plain backtracking does
C4_Witness ==
    /\ Done /\ result
    /\ Cardinality(Completions(given)) = 1
    /\ use_mrv /\ use_forward_checking /\ use_lcv
    /\ Len(assignment_order) >= 3
    /\ LET plain_first == CHOOSE p \in Empties(given) :
                              \A q \in Empties(given) : RowMajor(p) <= RowMajor(q)
       IN  assignment_order[1] # plain_first

-----------------------------------------------------------------------------
(* C5: solve() terminates for every accepted grid and every setting of the *)
(* toggles: it reaches its return (with a boolean), never ends in a failed *)
(* lookup, and neither the AC-3 worklist nor the recursion goes on for     *)
(* ever.                                                                   *)
C5_Terminates == <>(Done /\ result \in BOOLEAN)

\* a finished solve that ran AC-3 before and during a search three deep
C5_Witness ==
    /\ Done
    /\ use_ac3
    /\ Len(assignment_order) >= 3

-----------------------------------------------------------------------------
(* C6: from a grid without duplicate clues, the filled cells of the board  *)
(* are pairwise distinct in every row, column and box in every state of    *)
(* solve(); and every value the search writes is, when written, held by no *)
(* cell of the row, column and box of its cell.                            *)
C6_NoConflictOnBoard ==
    /\ [](NoDuplicates(given) => NoDuplicates(board))
    /\ [][\A p \in Pos :
            (board'[p] # board[p] /\ board'[p] # Empty)
                => board'[p] \notin Near(board, p)]_vars

\* between an assignment and its propagation, two search values on the
\* board and stale domains (forward checking off)
C6_Witness ==
    /\ pc = "assigned"
    /\ NoDuplicates(given)
    /\ ~use_forward_checking
    /\ Len(assignment_order) >= 2
    /\ \E p \in DOMAIN domains : domains[p] \cap Near(board, p) # {}

-----------------------------------------------------------------------------
(* C7, as stated: under every setting of the toggles, at every entry to    *)
(* backtrack_with_conflicts, no empty cell's domain holds a value that is  *)
(* on the board in its row, column or box.                                 *)
C7_DomainsFollowBoard ==
    pc = "call" =>
        \A p \in Empties(board) \cap DOMAIN domains :
            domains[p] \cap Near(board, p) = {}

(* C7, amended: at every entry to backtrack_with_conflicts, no empty       *)
(* cell's domain holds a clue of its row, column or box; and with forward  *)
(* checking enabled it holds no value at all that is on the board in its   *)
(* row, column or box.                                                     *)
C7_DomainsFollowClues ==
    pc = "call" =>
        \A p \in Empties(board) \cap DOMAIN domains :
            /\ domains[p] \cap Near(given, p) = {}
            /\ use_forward_checking => domains[p] \cap Near(board, p) = {}

\* an entry after an assignment whose forward check pruned a domain
C7_Witness ==
    /\ pc = "call"
    /\ use_forward_checking /\ ~use_ac3
    /\ assignment_order # << >>
    /\ \E p \in DOMAIN domains : domains[p] # initialize_domains(given)[p]

-----------------------------------------------------------------------------
(* C8: when forward_check_with_conflicts(var, value) empties the domain of *)
(* an unassigned peer q it stops at once, leaving the later peers          *)
(* unpruned, and returns a set holding both q and var; when it empties no  *)
(* domain it returns None.  Stated on the call made after an assignment.   *)
C8_ForwardCheckBlamesBoth ==
    (pc = "assigned" /\ use_forward_checking) =>
        LET var == Top.var
            value == Top.value
            fc == forward_check_with_conflicts(board, domains, var, value)
            peers == { p \in Empties(board) \cap DOMAIN domains : Related(p, var) }
            emptied == { p \in peers : domains[p] \ {value} = {} }
        IN  IF emptied = {}
            THEN ~fc.failed
            ELSE LET q == CHOOSE p \in emptied :
                              \A r \in emptied : RowMajor(p) <= RowMajor(r)
                 IN  /\ fc.failed
                     /\ {q, var} \subseteq fc.conflicts
                     /\ \A p \in peers :
                            RowMajor(p) > RowMajor(q) => fc.domains[p] = domains[p]

-----------------------------------------------------------------------------
(* C9: whenever backtrack_with_conflicts has tried every value of var and  *)
(* stores conflict_sets[var], the stored set holds only positions that are *)
(* on assignment_order at that moment: never var, never an unassigned      *)
(* position.                                                               *)
C9_ConflictsAreAssigned ==
    [][(pc = "loop" /\ pc' = "ret") =>
          /\ conflict_sets'[Top.var] \subseteq Range(assignment_order)
          /\ Top.var \notin conflict_sets'[Top.var]]_vars

-----------------------------------------------------------------------------
(* C10: whenever restore_state has run for a rejected candidate, the       *)
(* board, the domain map, the conflict-set map and assignment_order are    *)
(* what they were just before that candidate was assigned.                 *)
C10_RejectLeavesNoTrace ==
    [][Len(assignment_order') < Len(assignment_order) =>
          LET was == before[Len(before)]
          IN  /\ board' = was.board
              /\ domains' = was.domains
              /\ Top.var \in DOMAIN domains'
              /\ conflict_sets' = was.conflict_sets
              /\ assignment_order' = was.assignment_order]_vars

\* back at the loop after a candidate was rejected on an AC-3 conflict
C10_Witness ==
    /\ pc = "loop"
    /\ Top.value # Empty
    /\ Top.current_conflicts # {}
    /\ board[Top.var] = Empty

-----------------------------------------------------------------------------
(* C11: whenever ac3_with_conflicts returns None, every value in the       *)
(* domain of an unassigned cell has a support (a different value) in the   *)
(* domain of each unassigned cell sharing its row, column or box, so no    *)
(* unassigned cell keeps the only candidate of an unassigned peer; and     *)
(* whenever it returns a conflict set, that set is {xi, xj} for an arc     *)
(* (xi, xj) whose revision emptied the domain of xi.                       *)

\* v, a value of xi, is supported by xj
Supported(doms, xi, xj, v) == \E w \in doms[xj] : w # v

ArcConsistent(doms) ==
    \A xi, xj \in DOMAIN doms :
        (xi # xj /\ Related(xi, xj)) =>
            /\ \A v \in doms[xi] : Supported(doms, xi, xj, v)
            /\ Cardinality(doms[xj]) = 1 => doms[xi] \cap doms[xj] = {}

C11_Ac3ArcConsistent ==
    [][(pc = "ac3" /\ pc' \notin {"ac3", "error"}) =>
          IF ac3_conflicts'.failed
          THEN \E xi, xj \in DOMAIN domains :
                  /\ xi # xj /\ Related(xi, xj)
                  /\ ac3_conflicts'.conflicts = {xi, xj}
                  /\ domains[xi] # {}
                  /\ \A v \in domains[xi] : ~Supported(domains, xi, xj, v)
          ELSE /\ ac3_conflicts'.conflicts = {}
               /\ ArcConsistent(domains')]_vars

\* AC-3 has just returned None inside the search, forward checking being
\* off: two unassigned cells that constrain each other remain, and a domain
\* is smaller than the constructor made it, which only AC-3 can have done
C11_Witness ==
    /\ pc = "call"
    /\ use_ac3 /\ ~use_forward_checking
    /\ ~ac3_conflicts.failed
    /\ stack # << >>
    /\ \E xi, xj \in DOMAIN domains : xi # xj /\ Related(xi, xj)
    /\ \E p \in DOMAIN domains : domains[p] # initialize_domains(given)[p]
====
